---- MODULE Spec2Model ----
(***************************************************************************)
(* The spatial-audio pipeline of src/src/audio.rs: Sound / SoundFrame,     *)
(* SoundLibrary, Emitter, Listener and the AudioSystem scheduler with its  *)
(* rodio sink.                                                             *)
(*                                                                         *)
(* Two specifications share the variables:                                 *)
(*   SpecSound  one PCM input is drawn in Init, Sound::new is applied to   *)
(*              it and the resulting clip is played by a single Emitter;   *)
(*   Spec       an AudioSystem with a library built at startup, Emitters   *)
(*              and Listeners registered at run time, update() ticks and   *)
(*              the playback device draining the sink.                     *)
(***************************************************************************)
EXTENDS Integers, Sequences, FiniteSets, TLC

VARIABLES
    pcm,        \* arguments of the Sound::new call under study (SpecSound)
    calls,      \* number of Emitter::get_frames calls made so far (SpecSound)
    panic,      \* "" while the program runs, else the panic message
    library,    \* SoundLibrary.sounds : name -> Sound
    staged,     \* the Emitter being built (Emitter::new(..).with_sound(..)), or None
    emitters,   \* AudioSystem.emitters : u32 -> Emitter
    listeners,  \* AudioSystem.listeners : u32 -> Listener
    sink,       \* AudioSystem.sink : the queue of appended mixers not yet played
    last,       \* the last operation invoked, its arguments and its return value
    native,     \* AudioSystem.audio_processor: its native context and HRTF, and
                \* how far the drop of the AudioSystem has come
    play        \* the passes of update() run so far and the Emitters as they were
                \* registered before the first of them (SpecPlay)

vars == <<pcm, calls, panic, library, staged, emitters, listeners, sink, last,
          native, play>>

----------------------------------------------------------------------------
(* Bounds of the model *)

\* Block length.  audio.rs:17 sets 1024; the model scales the block down so
\* that every sample vector of up to MaxLen samples can be enumerated.
FRAME_SIZE == 2

\* Longest sample vector given to Sound::new: two full blocks and a partial one.
MaxLen == 5

\* Longest clip of the library the AudioSystem starts with.
MaxClip == 3

\* Largest channel count given to Sound::new.
MaxChannels == 2

\* Emitters, Listeners and Sounds attached to Emitters, all together.
MaxObjects == 4

\* get_frames calls counted in SpecSound.
MaxCalls == 5

\* Passes of update() counted in SpecPlay: one more than the longest clip has
\* frames.
MaxTicks == 3

(* Program constants *)
FRAMES_TO_BUFFER == 2
SAMPLE_RATE == 44100

----------------------------------------------------------------------------
(* Values *)

Samples == {0, 1}
Rates == {0, 1000, SAMPLE_RATE \div 2, SAMPLE_RATE}
Names == {"a", "b", "nonexistent"}
LibNames == {"a", "b"}

\* Option::None and Option::Some(v)
None == [none |-> TRUE]
Some(v) == [some |-> v]
IsSome(o) == "some" \in DOMAIN o
EmptyMap == [x \in {} |-> 0]

Min(a, b) == IF a < b THEN a ELSE b
Max(a, b) == IF a < b THEN b ELSE a

\* ceil(a / b) for b > 0
CeilDiv(a, b) == (a + b - 1) \div b

\* All sequences over S of length 0..n
SeqsUpTo(S, n) == UNION {[1..k -> S] : k \in 0..n}

\* std::time::Duration
DurationFromMillis(ms) == [secs |-> ms \div 1000, nanos |-> (ms % 1000) * 1000000]
DurationNew(secs, nanos) ==
    [secs |-> secs + nanos \div 1000000000, nanos |-> nanos % 1000000000]

\* floor(a * b / d) without forming a * b
MulDiv(a, b, d) == (a \div d) * b + ((a % d) * b) \div d

----------------------------------------------------------------------------
(* Sound::new *)

\* slice::chunks(n): consecutive pieces of n elements, the last one shorter
RECURSIVE Chunks(_, _)
Chunks(s, n) ==
    IF Len(s) = 0 THEN <<>>
    ELSE <<SubSeq(s, 1, Min(n, Len(s)))>> \o Chunks(SubSeq(s, n + 1, Len(s)), n)

\* vec![0.0; n]
Zeros(n) == [i \in 1..n |-> 0]

\* MakeFrame with the padding put in front of the chunk
MakeFrame_PadFront(c, channels, sample_rate, frame_duration) ==
    LET v == Zeros(FRAME_SIZE - Len(c)) \o c
    IN  [size |-> Len(v), data |-> v, channels |-> channels,
         sample_rate |-> sample_rate, duration |-> frame_duration]

\* MakeFrame that describes a padded frame as one channel of the samples it got
MakeFrame_OwnMetadata(c, channels, sample_rate, frame_duration) ==
    LET v == c \o Zeros(FRAME_SIZE - Len(c))
    IN  [size |-> Len(v), data |-> v,
         channels |-> IF Len(c) < FRAME_SIZE THEN 1 ELSE channels,
         sample_rate |-> sample_rate, duration |-> frame_duration]

\* the closure of the map in Sound::new: one chunk to one SoundFrame
MakeFrame(c, channels, sample_rate, frame_duration) ==
    LET v == c \o Zeros(FRAME_SIZE - Len(c))
    IN  [size |-> Len(v), data |-> v, channels |-> channels,
         sample_rate |-> sample_rate, duration |-> frame_duration]

Panic(msg) == [panic |-> msg]
IsPanic(r) == "panic" \in DOMAIN r

\* Sound::new of the sample vector `data`: the Sound built, or the panic
SoundBuild(data, channels, sample_rate) ==
    IF sample_rate = 0 \/ channels = 0 THEN Panic("attempt to divide by zero")
    ELSE
      LET duration_ms == ((1000 * (Len(data) * FRAME_SIZE)) \div sample_rate) \div channels
          duration == DurationFromMillis(duration_ms)
          duration_ns == MulDiv(1000000000, FRAME_SIZE, sample_rate) \div channels
          frame_duration == DurationNew(duration_ns \div 1000000000,
                                        duration_ns % 1000000000)
          chunks == Chunks(data, Max(FRAME_SIZE, 1))
          frames == [k \in 1..Len(chunks) |->
                        MakeFrame(chunks[k], channels, sample_rate, frame_duration)]
      IN  [frames |-> frames, channels |-> channels,
           sample_rate |-> sample_rate, duration |-> duration]

\* Sound::new without its assertion
SoundNew_NoAssert(data, channels, sample_rate) ==
    SoundBuild(data, channels, sample_rate)

\* Sound::new: assert!(!data.is_empty(), "Empty Data Vector") comes first
SoundNew(data, channels, sample_rate) ==
    IF Len(data) = 0 THEN Panic("Empty Data Vector")
    ELSE SoundBuild(data, channels, sample_rate)

----------------------------------------------------------------------------
(* Iterator for Sound *)

\* Sound::next: a Peekable made over &mut self.frames takes the next frame
\* out of the cursor to peek at it, the closure takes the first sample left in
\* that frame, and the Peekable is dropped with the frame it holds
SoundNext(sound) ==
    IF Len(sound.frames) = 0 THEN [sound |-> sound, item |-> None]
    ELSE LET sf == Head(sound.frames)
         IN  [sound |-> [sound EXCEPT !.frames = Tail(@)],
              item |-> IF Len(sf.data) = 0 THEN None ELSE Some(Head(sf.data))]

\* the samples a consumer gets that calls next() until it returns None
RECURSIVE SoundCollect(_)
SoundCollect(sound) ==
    LET r == SoundNext(sound)
    IN  IF IsSome(r.item) THEN <<r.item.some>> \o SoundCollect(r.sound)
        ELSE <<>>

----------------------------------------------------------------------------
(* SoundLibrary *)

\* HashMap::insert: the entry of key k becomes v, added or overwritten
MapInsert(m, k, v) == [x \in DOMAIN m \cup {k} |-> IF x = k THEN v ELSE m[x]]

\* SoundLibrary::with_sound
LibraryWithSound(lib, name, sound) == MapInsert(lib, name, sound)

\* SoundLibrary::get_sound
GetSound(lib, name) == IF name \in DOMAIN lib THEN Some(lib[name]) ELSE None

----------------------------------------------------------------------------
(* Emitter *)

Playbacks == {"None", "Once"}

\* Emitter::new: no sound assigned
EmitterNewValue(sound_playback) == [sounds |-> <<>>, sound_playback |-> sound_playback]

\* with_sound that attaches an empty Sound when the name is not found
WithSound_Default(e, sound_name, lib) ==
    LET found == GetSound(lib, sound_name)
    IN  [e EXCEPT !.sounds = Append(@, IF IsSome(found) THEN found.some
                                       ELSE [frames |-> <<>>, channels |-> 0,
                                             sample_rate |-> 0,
                                             duration |-> DurationFromMillis(0)])]

\* with_sound that hands out the cursor a registered Emitter already moves
\* over the same Sound, where there is one
WithSound_SharedCursor(e, sound_name, lib) ==
    LET found == GetSound(lib, sound_name)
        playing == IF IsSome(found)
                   THEN {s \in UNION {{emitters[eid].sounds[i] :
                                           i \in DOMAIN emitters[eid].sounds} :
                                       eid \in DOMAIN emitters} :
                            /\ Len(s.frames) < Len(found.some.frames)
                            /\ s.frames = SubSeq(found.some.frames,
                                                 Len(found.some.frames) - Len(s.frames) + 1,
                                                 Len(found.some.frames))}
                   ELSE {}
    IN  IF IsSome(found)
        THEN [e EXCEPT !.sounds = Append(@, IF playing = {} THEN found.some
                                            ELSE CHOOSE s \in playing : TRUE)]
        ELSE e

\* Emitter::with_sound: a clone of the library's Sound is put at the end of
\* the list when the name is found, nothing happens when it is not
WithSound(e, sound_name, lib) ==
    LET found == GetSound(lib, sound_name)
    IN  IF IsSome(found)
        THEN [e EXCEPT !.sounds = Append(@, found.some)]
        ELSE e

\* a cursor that never moves
FramesNext_Stuck(s) == s

\* a cursor that moves past two frames at a time
FramesNext_SkipOne(s) ==
    IF s.frames = <<>> THEN s ELSE [s EXCEPT !.frames = SubSeq(@, 3, Len(@))]

\* vec::IntoIter::next on Sound.frames: the cursor moves past the first
\* remaining frame, or stays where it is at the end
FramesNext(s) == IF s.frames = <<>> THEN s ELSE [s EXCEPT !.frames = Tail(@)]
FramesItem(s) == IF s.frames = <<>> THEN None ELSE Some(Head(s.frames))

\* the frames up to the first Sound that has none left (map_while)
RECURSIVE FilterMapNext_StopAtNone(_)
FilterMapNext_StopAtNone(sounds) ==
    IF sounds = <<>> THEN <<>>
    ELSE IF Head(sounds).frames = <<>> THEN <<>>
    ELSE <<Head(Head(sounds).frames)>> \o FilterMapNext_StopAtNone(Tail(sounds))

\* iter_mut().filter_map(|s| s.frames.next()).collect()
RECURSIVE FilterMapNext(_)
FilterMapNext(sounds) ==
    IF sounds = <<>> THEN <<>>
    ELSE LET item == FramesItem(Head(sounds))
         IN  (IF IsSome(item) THEN <<item.some>> ELSE <<>>)
             \o FilterMapNext(Tail(sounds))

\* Emitter::get_frames: the Emitter afterwards and the value returned
GetFramesEmitter(e) == [e EXCEPT !.sounds = [i \in 1..Len(@) |-> FramesNext(@[i])]]
GetFramesReturn(e) ==
    LET frames == FilterMapNext(e.sounds)
    IN  IF frames = <<>> THEN None ELSE Some(frames)

----------------------------------------------------------------------------
(* Operations on an Emitter that is not registered yet *)

\* the handles of a context or HRTF that was not created, is in use, or was
\* released
HandleStates == {"none", "live", "released"}

\* AudioProcessor::create_context, given whether iplContextCreate and
\* iplHRTFCreate succeed: the processor's native state, or the panic of the
\* assert_eq! that saw the failure (the fields of the processor that was
\* never built show which handles the native library gave out)
CreateContext(context_ok, hrtf_ok) ==
    LET made == [context |-> IF context_ok THEN "live" ELSE "none",
                 hrtf |-> IF context_ok /\ hrtf_ok THEN "live" ELSE "none",
                 context_releases |-> 0, hrtf_releases |-> 0, dropping |-> 0]
    IN  IF context_ok /\ hrtf_ok THEN [native |-> made, panic |-> ""]
        ELSE [native |-> made, panic |-> "assertion failed: left == right"]

\* no pass of update() is counted
NotCounted == [passes |-> 0, assigned |-> EmptyMap]

\* the program runs: nothing has panicked and the AudioSystem is not being
\* dropped
Running == panic = "" /\ native.dropping = 0

\* the number of Emitters, Listeners and attached Sounds created so far
RECURSIVE SumSounds(_, _)
SumSounds(ems, ids) ==
    IF ids = {} THEN 0
    ELSE LET x == CHOOSE y \in ids : TRUE
         IN  Len(ems[x].sounds) + SumSounds(ems, ids \ {x})

Objects ==
    Cardinality(DOMAIN emitters) + SumSounds(emitters, DOMAIN emitters)
    + (IF IsSome(staged) THEN 1 + Len(staged.some.sounds) ELSE 0)
    + Cardinality(DOMAIN listeners)

\* Emitter::new(transform, sound_playback, &mut audio_system)
EmitterNew(sound_playback) ==
    /\ Running
    /\ staged = None
    /\ Objects < MaxObjects
    /\ staged' = Some(EmitterNewValue(sound_playback))
    /\ calls' = 0
    /\ last' = [op |-> "Emitter::new"]
    /\ UNCHANGED <<native, play, pcm, panic, library, emitters, listeners, sink>>

\* emitter.with_sound(sound_name, &library)
EmitterWithSound(sound_name) ==
    /\ Running
    /\ IsSome(staged)
    /\ Objects < MaxObjects
    /\ staged' = Some(WithSound(staged.some, sound_name, library))
    /\ calls' = IF staged' = staged THEN calls ELSE 0
    /\ last' = [op |-> "with_sound", name |-> sound_name]
    /\ UNCHANGED <<native, play, pcm, panic, library, emitters, listeners, sink>>

\* emitter.get_frames() on the Emitter being built
StagedGetFrames ==
    /\ Running
    /\ IsSome(staged)
    /\ calls < MaxCalls
    /\ staged' = Some(GetFramesEmitter(staged.some))
    /\ calls' = calls + 1
    /\ last' = [op |-> "get_frames", ret |-> GetFramesReturn(staged.some)]
    /\ UNCHANGED <<native, play, pcm, panic, library, emitters, listeners, sink>>

----------------------------------------------------------------------------
(* SpecSound: Sound::new on one PCM input, the clip played by one Emitter *)

\* library.with_sound("a", Sound::new(data, channels, sample_rate))
LoadSound ==
    /\ Running
    /\ library = EmptyMap
    /\ LET sound == SoundNew(pcm.data, pcm.channels, pcm.sample_rate)
       IN  IF IsPanic(sound)
           THEN /\ panic' = sound.panic
                /\ UNCHANGED library
           ELSE /\ library' = LibraryWithSound(library, "a", sound)
                /\ UNCHANGED panic
    /\ last' = [op |-> "Sound::new"]
    /\ UNCHANGED <<native, play, pcm, calls, staged, emitters, listeners, sink>>

\* a clone of the library's Sound, or of a Sound of the Emitter being built,
\* is played as a Source: next() is called until it returns None
SoundIterate ==
    /\ Running
    /\ \E sound \in {library[n] : n \in DOMAIN library}
                   \cup (IF IsSome(staged)
                         THEN {staged.some.sounds[i] : i \in DOMAIN staged.some.sounds}
                         ELSE {}) :
          last' = [op |-> "iterate", sound |-> sound, yielded |-> SoundCollect(sound)]
    /\ UNCHANGED <<native, play, pcm, calls, panic, library, staged, emitters,
                   listeners, sink>>

InitSound ==
    /\ pcm \in [data : SeqsUpTo(Samples, MaxLen),
                 channels : 0..MaxChannels,
                 sample_rate : Rates]
    /\ calls = 0
    /\ panic = ""
    /\ library = EmptyMap
    /\ staged = None
    /\ emitters = EmptyMap
    /\ listeners = EmptyMap
    /\ sink = <<>>
    /\ last = [op |-> "init"]
    /\ native = CreateContext(TRUE, TRUE).native
    /\ play = NotCounted

NextSound ==
    \/ LoadSound
    \/ \E p \in Playbacks : EmitterNew(p)
    \/ \E n \in Names : EmitterWithSound(n)
    \/ StagedGetFrames
    \/ SoundIterate

SpecSound == InitSound /\ [][NextSound]_vars

----------------------------------------------------------------------------
(* Listener and the spatializer *)

\* steam_audio Buffer: the native buffer's shape and what was last written
\* to it.  The native effects are functions the source does not contain;
\* their result is kept as the term naming the effect and its inputs.
BufferEmpty(num_channels) ==
    [channels |-> num_channels, samples |-> FRAME_SIZE, content |-> <<>>]
BufferNewWithData(num_channels, data) ==
    [channels |-> num_channels, samples |-> FRAME_SIZE, content |-> <<"pcm", data>>]

\* Listener::new
ListenerNewValue ==
    [frame_count |-> 0, audio_queue |-> <<>>,
     mono_buffer |-> BufferEmpty(1), stereo_buffer |-> BufferEmpty(2),
     ambisonics1_buffer |-> BufferEmpty(9), ambisonics2_buffer |-> BufferEmpty(9)]

\* Effect::apply: out_buffer receives the effect of in_buffer
EffectApply(effect, params, in_buffer, out_buffer) ==
    [out_buffer EXCEPT !.content = <<effect, params, in_buffer.content>>]

\* a copy that keeps the planar layout: all of channel 0, then all of channel 1
Interleave_Planar(in_buffer) ==
    [i \in 1..(in_buffer.channels * in_buffer.samples) |->
        [of |-> in_buffer.content,
         channel |-> (i - 1) \div in_buffer.samples,
         sample |-> (i - 1) % in_buffer.samples]]

\* utils::interleave: channels * samples values taken from the planar buffer,
\* sample by sample and channel by channel
Interleave(in_buffer) ==
    [i \in 1..(in_buffer.channels * in_buffer.samples) |->
        [of |-> in_buffer.content,
         channel |-> (i - 1) % in_buffer.channels,
         sample |-> (i - 1) \div in_buffer.channels]]

\* the three native stages apply_convolutions runs, in its order
Stages == <<"ambisonics_encode", "direct", "ambisonics_binaural">>

\* what one pass of update() meets in the native library: no failure, or one
\* pairing whose frames fail at one stage
Faults(lids, eids) ==
    {None} \cup {Some([listener |-> l, emitter |-> e, stage |-> Stages[n]]) :
                    l \in lids, e \in eids, n \in DOMAIN Stages}

\* the stage at which the frames of the pairing (lid, eid) fail, or "none"
FaultOf(fault, lid, eid) ==
    IF IsSome(fault) /\ fault.some.listener = lid /\ fault.some.emitter = eid
    THEN fault.some.stage ELSE "none"

\* Effect::apply of a stage that fails: the status says so and out_buffer
\* holds whatever the stage left in it
EffectFail(effect, params, in_buffer, out_buffer) ==
    [out_buffer EXCEPT !.content = <<"failed", effect, params, in_buffer.content>>]

\* Effect::apply with its returned status
EffectRun(failing, effect, params, in_buffer, out_buffer) ==
    IF failing = effect
    THEN [status |-> "failure", buffer |-> EffectFail(effect, params, in_buffer, out_buffer)]
    ELSE [status |-> "success", buffer |-> EffectApply(effect, params, in_buffer, out_buffer)]

\* let o = interleave(...): a Vec of the capacity asked for, 2 * frame.size,
\* read back after the native interleave has written into it
ReadBack(capacity, written) ==
    [i \in 1..capacity |-> IF i <= Len(written) THEN written[i] ELSE [of |-> "unwritten"]]

\* apply_convolutions in which the direct effect reads ambisonics buffer 1 as
\* it was before the encode stage of this call wrote it
ApplyConvolutions_StaleDirect(listener, frame, lid, eid, failing) ==
    LET geometry == <<lid, eid>>
        mono_buffer == BufferNewWithData(1, frame.data)
        encode == EffectRun(failing, "ambisonics_encode", geometry, mono_buffer,
                            listener.ambisonics1_buffer)
        amb1 == encode.buffer
        direct == EffectRun(failing, "direct", geometry, listener.ambisonics1_buffer,
                            listener.ambisonics2_buffer)
        amb2 == direct.buffer
        binaural == EffectRun(failing, "ambisonics_binaural", <<>>, amb2,
                              listener.stereo_buffer)
        stereo == binaural.buffer
        o == ReadBack(2 * frame.size, Interleave(stereo))
    IN  [listener |-> [listener EXCEPT !.ambisonics1_buffer = amb1,
                                       !.ambisonics2_buffer = amb2,
                                       !.stereo_buffer = stereo],
         out |-> [frame EXCEPT !.data = o, !.channels = 2],
         statuses |-> <<encode.status, direct.status, binaural.status>>]

\* Listener::apply_convolutions(frame, emitter, audio_processor) of listener
\* lid with Emitter eid: the Listener afterwards, the frame returned and the
\* statuses the three stages returned, which the function drops.
\* The geometry of the pair stands for direction and distance.
ApplyConvolutions(listener, frame, lid, eid, failing) ==
    LET geometry == <<lid, eid>>
        mono_buffer == BufferNewWithData(1, frame.data)
        encode == EffectRun(failing, "ambisonics_encode", geometry, mono_buffer,
                            listener.ambisonics1_buffer)
        amb1 == encode.buffer
        direct == EffectRun(failing, "direct", geometry, amb1, listener.ambisonics2_buffer)
        amb2 == direct.buffer
        binaural == EffectRun(failing, "ambisonics_binaural", <<>>, amb2,
                              listener.stereo_buffer)
        stereo == binaural.buffer
        o == ReadBack(2 * frame.size, Interleave(stereo))
    IN  [listener |-> [listener EXCEPT !.ambisonics1_buffer = amb1,
                                       !.ambisonics2_buffer = amb2,
                                       !.stereo_buffer = stereo],
         out |-> [frame EXCEPT !.data = o, !.channels = 2],
         statuses |-> <<encode.status, direct.status, binaural.status>>]

----------------------------------------------------------------------------
(* AudioSystem *)

\* the orders in which a HashMap with key set S may be iterated
Orders(S) == {f \in [1..Cardinality(S) -> S] : \A i, j \in DOMAIN f : f[i] = f[j] => i = j}

\* a guard that lets update() run with the sink at the mark
BelowLowWater_AtMark(n) == n <= FRAMES_TO_BUFFER

\* a guard that lets update() run always
BelowLowWater_Always(n) == TRUE

\* if self.sink.len() < FRAMES_TO_BUFFER
BelowLowWater(n) == n < FRAMES_TO_BUFFER

\* a mixer that starts with the sources of the mixer appended last
NewMixer_Reused(channels, sample_rate) ==
    IF sink = <<>> THEN <<>> ELSE sink[Len(sink)]

\* rodio::dynamic_mixer::mixer::<f32>(2, 44100): a mixer without sources
NewMixer(channels, sample_rate) == <<>>

\* mixer_controller.add(out)
MixerAdd(mixer, out) == Append(mixer, out)

\* an append that leaves a mixer without sources out of the sink
SinkAppend_SkipEmpty(queue, mixer) == IF mixer = <<>> THEN queue ELSE Append(queue, mixer)

\* self.sink.append(mixer)
SinkAppend(queue, mixer) == Append(queue, mixer)

\* The state of one pass of update(): the registries, the mixer of the tick,
\* the apply_convolutions calls made so far and the failure the pass meets.

\* for (i, frame) in frames.into_iter().enumerate()
RECURSIVE FrameLoop(_, _, _, _, _)
FrameLoop(st, lid, eid, frames, i) ==
    IF i > Len(frames) THEN st
    ELSE LET r == ApplyConvolutions(st.listeners[lid], frames[i], lid, eid,
                                    FaultOf(st.fault, lid, eid))
         IN  FrameLoop([st EXCEPT !.listeners[lid] = r.listener,
                                  !.mixer = MixerAdd(@, r.out),
                                  !.calls = Append(@, [listener |-> lid, emitter |-> eid,
                                                       index |-> i - 1, frame |-> frames[i],
                                                       out |-> r.out,
                                                       statuses |-> r.statuses])],
                       lid, eid, frames, i + 1)

\* for (emitter_id, emitter) in self.emitters.iter_mut()
RECURSIVE EmitterLoop(_, _, _, _)
EmitterLoop(st, lid, eorder, j) ==
    IF j > Len(eorder) THEN st
    ELSE LET eid == eorder[j]
             ret == GetFramesReturn(st.emitters[eid])
             pulled == [st EXCEPT !.emitters[eid] = GetFramesEmitter(@)]
         IN  EmitterLoop(IF IsSome(ret) THEN FrameLoop(pulled, lid, eid, ret.some, 1)
                                        ELSE pulled,
                         lid, eorder, j + 1)

\* a loop over listeners that ends the pass at the first failed call
RECURSIVE ListenerLoop_AbortOnFailure(_, _, _, _)
ListenerLoop_AbortOnFailure(st, lorder, eorder, k) ==
    IF k > Len(lorder) \/ (\E c \in DOMAIN st.calls : "failure" \in
                               {st.calls[c].statuses[n] : n \in DOMAIN st.calls[c].statuses})
    THEN st
    ELSE ListenerLoop_AbortOnFailure(EmitterLoop(st, lorder[k], eorder, 1),
                                     lorder, eorder, k + 1)

\* for (_, listener) in self.listeners.iter_mut()
RECURSIVE ListenerLoop(_, _, _, _)
ListenerLoop(st, lorder, eorder, k) ==
    IF k > Len(lorder) THEN st
    ELSE ListenerLoop(EmitterLoop(st, lorder[k], eorder, 1), lorder, eorder, k + 1)

\* the Emitters that have a frame to give: only their pairings run a stage
Sounding(ems) == {eid \in DOMAIN ems : IsSome(GetFramesReturn(ems[eid]))}

\* AudioSystem::update, but for the count of passes
UpdateBody ==
    /\ Running
    /\ IF BelowLowWater(Len(sink))
       THEN \E lorder \in Orders(DOMAIN listeners), eorder \in Orders(DOMAIN emitters),
               fault \in Faults(DOMAIN listeners, Sounding(emitters)) :
              LET st == ListenerLoop([emitters |-> emitters, listeners |-> listeners,
                                      mixer |-> NewMixer(2, SAMPLE_RATE), calls |-> <<>>,
                                      fault |-> fault],
                                     lorder, eorder, 1)
              IN  /\ emitters' = st.emitters
                  /\ listeners' = st.listeners
                  /\ sink' = SinkAppend(sink, st.mixer)
                  /\ last' = [op |-> "update", ran |-> TRUE, calls |-> st.calls]
       ELSE /\ last' = [op |-> "update", ran |-> FALSE, calls |-> <<>>]
            /\ UNCHANGED <<emitters, listeners, sink>>
    /\ UNCHANGED <<native, pcm, calls, panic, library, staged>>

\* AudioSystem::update
Update == UpdateBody /\ UNCHANGED play

\* AudioSystem::update, counted when it runs a pass
Tick ==
    /\ BelowLowWater(Len(sink)) => play.passes < MaxTicks
    /\ UpdateBody
    /\ play' = [play EXCEPT !.passes = IF last'.ran THEN @ + 1 ELSE @]

\* the playback device has played the mixer at the front of the sink
DevicePlay ==
    /\ Running
    /\ sink # <<>>
    /\ sink' = Tail(sink)
    /\ last' = [op |-> "device"]
    /\ UNCHANGED <<native, play, pcm, calls, panic, library, staged, emitters, listeners>>

\* an id that is the same for every registration
NextId_Zero(registry) == 0

\* the id given by with_emitter / register_emitter: self.emitters.len()
NextId(registry) == Cardinality(DOMAIN registry)

\* AudioSystem::register_emitter
RegisterEmitter ==
    /\ Running
    /\ IsSome(staged)
    /\ emitters' = MapInsert(emitters, NextId(emitters), staged.some)
    /\ staged' = None
    /\ last' = [op |-> "register_emitter", ret |-> NextId(emitters)]
    /\ UNCHANGED <<native, play, pcm, calls, panic, library, listeners, sink>>

\* AudioSystem::with_emitter
WithEmitter ==
    /\ Running
    /\ IsSome(staged)
    /\ emitters' = MapInsert(emitters, NextId(emitters), staged.some)
    /\ staged' = None
    /\ last' = [op |-> "with_emitter"]
    /\ UNCHANGED <<native, play, pcm, calls, panic, library, listeners, sink>>

\* AudioSystem::register_listener(Listener::new(..))
RegisterListener ==
    /\ Running
    /\ Objects < MaxObjects
    /\ listeners' = MapInsert(listeners, NextId(listeners), ListenerNewValue)
    /\ last' = [op |-> "register_listener", ret |-> NextId(listeners)]
    /\ UNCHANGED <<native, play, pcm, calls, panic, library, staged, emitters, sink>>

\* AudioSystem::with_listener(Listener::new(..))
WithListener ==
    /\ Running
    /\ Objects < MaxObjects
    /\ listeners' = MapInsert(listeners, NextId(listeners), ListenerNewValue)
    /\ last' = [op |-> "with_listener"]
    /\ UNCHANGED <<native, play, pcm, calls, panic, library, staged, emitters, sink>>

\* get_frames on one Emitter advances the Emitters of the whole registry
EmittersAfterGetFrames_Shared(ems, uid) ==
    [x \in DOMAIN ems |-> GetFramesEmitter(ems[x])]

\* the registry after get_emitter(uid).get_frames()
EmittersAfterGetFrames(ems, uid) == [ems EXCEPT ![uid] = GetFramesEmitter(@)]

\* audio_system.get_emitter(uid).unwrap().get_frames()
GetFrames(uid) ==
    /\ Running
    /\ uid \in DOMAIN emitters
    /\ emitters' = EmittersAfterGetFrames(emitters, uid)
    /\ last' = [op |-> "get_frames", uid |-> uid, ret |-> GetFramesReturn(emitters[uid])]
    /\ UNCHANGED <<native, play, pcm, calls, panic, library, staged, listeners, sink>>

\* The clips of the library: "a" has the samples 1, 2, .., MaxClip (its last
\* block is padded), "b" is one full block of other samples, so that every
\* block of the library differs from the others.
Clip(name) ==
    IF name = "a" THEN [i \in 1..MaxClip |-> i]
    ELSE [i \in 1..FRAME_SIZE |-> MaxClip + i]

\* The state after AudioSystem::create_system().with_library(library), the
\* library holding clips loaded as with_raw_sound_file loads them (mono,
\* 44100 Hz) under some of the names.
Init ==
    /\ pcm = [data |-> <<>>, channels |-> 1, sample_rate |-> SAMPLE_RATE]
    /\ calls = 0
    /\ panic = CreateContext(TRUE, TRUE).panic
    /\ \E present \in SUBSET LibNames :
          library = [name \in present |-> SoundNew(Clip(name), 1, SAMPLE_RATE)]
    /\ staged = None
    /\ emitters = EmptyMap
    /\ listeners = EmptyMap
    /\ sink = <<>>
    /\ last = [op |-> "init"]
    /\ native = CreateContext(TRUE, TRUE).native
    /\ play = NotCounted

Next ==
    \/ \E p \in Playbacks : EmitterNew(p)
    \/ \E n \in Names : EmitterWithSound(n)
    \/ RegisterEmitter
    \/ WithEmitter
    \/ RegisterListener
    \/ WithListener
    \/ \E uid \in DOMAIN emitters : GetFrames(uid)
    \/ Update
    \/ DevicePlay

Spec == Init /\ [][Next]_vars

----------------------------------------------------------------------------
(* An AudioSystem that is set up first and then only ticks *)

\* Emitter::new(..).with_sound(names[1], &library).with_sound(names[2], ..)..
RECURSIVE WithSounds(_, _, _)
WithSounds(e, names, lib) ==
    IF names = <<>> THEN e
    ELSE WithSounds(WithSound(e, Head(names), lib), Tail(names), lib)

\* The state after create_system().with_library(library), the registration
\* of some Emitters, each with its Sounds attached, and of at least one
\* Listener, and before the first update().
InitPlay ==
    /\ pcm = [data |-> <<>>, channels |-> 1, sample_rate |-> SAMPLE_RATE]
    /\ calls = 0
    /\ panic = CreateContext(TRUE, TRUE).panic
    /\ native = CreateContext(TRUE, TRUE).native
    /\ library = [name \in LibNames |-> SoundNew(Clip(name), 1, SAMPLE_RATE)]
    /\ staged = None
    /\ \E n \in 0..(MaxObjects - 1), p \in Playbacks :
          \E names \in [0..(n - 1) -> SeqsUpTo(LibNames, MaxObjects - 1 - n)] :
              emitters = [id \in 0..(n - 1) |->
                             WithSounds(EmitterNewValue(p), names[id], library)]
    /\ \E l \in 1..MaxObjects : listeners = [id \in 0..(l - 1) |-> ListenerNewValue]
    /\ Objects <= MaxObjects
    /\ sink = <<>>
    /\ last = [op |-> "init"]
    /\ play = [passes |-> 0, assigned |-> emitters]

NextPlay ==
    \/ Tick
    \/ DevicePlay

SpecPlay == InitPlay /\ [][NextPlay]_vars

NextPlayFair ==
    \/ Update
    \/ DevicePlay

\* the device plays on its own thread whatever the sink holds
SpecPlayFair ==
    InitPlay /\ [][NextPlayFair]_vars /\ WF_vars(DevicePlay)

----------------------------------------------------------------------------
(* Construction and drop of the AudioSystem *)

\* the fields of AudioSystem in their order of declaration, which is the
\* order in which the drop of an AudioSystem drops them
Fields == <<"audio_processor", "stream", "stream_handle", "emitters", "listeners",
            "library", "sink">>

\* iplContextRelease(&mut self.context)
ReleaseContext(n) ==
    [n EXCEPT !.context = "released", !.context_releases = @ + 1]

\* a second iplContextRelease where the HRTF should be released
ReleaseHRTF_ContextAgain(n) ==
    [n EXCEPT !.context = "released", !.context_releases = @ + 1]

\* iplHRTFRelease(&mut self.hrtf)
ReleaseHRTF(n) ==
    [n EXCEPT !.hrtf = "released", !.hrtf_releases = @ + 1]

\* Drop for AudioProcessor
ProcessorDrop(n) == ReleaseHRTF(ReleaseContext(n))

\* the owner lets go of the AudioSystem: its drop begins
Teardown ==
    /\ Running
    /\ native' = [native EXCEPT !.dropping = 1]
    /\ last' = [op |-> "drop"]
    /\ UNCHANGED <<play, pcm, calls, panic, library, staged, emitters, listeners, sink>>

\* the drop of the AudioSystem drops its next field; a HashMap drops all its
\* entries, an Emitter its effect stages, a Listener its buffers
DropField ==
    /\ native.dropping \in DOMAIN Fields
    /\ LET field == Fields[native.dropping]
           dropped == IF field = "audio_processor" THEN ProcessorDrop(native) ELSE native
       IN  /\ native' = [dropped EXCEPT !.dropping = @ + 1]
           /\ emitters' = IF field = "emitters" THEN EmptyMap ELSE emitters
           /\ listeners' = IF field = "listeners" THEN EmptyMap ELSE listeners
           /\ library' = IF field = "library" THEN EmptyMap ELSE library
           /\ sink' = IF field = "sink" THEN <<>> ELSE sink
           /\ last' = [op |-> "drop_field", field |-> field]
    /\ UNCHANGED <<play, pcm, calls, panic, staged>>

\* AudioSystem::create_system().with_library(library), with either native
\* creation call of create_context succeeding or failing
InitLife ==
    /\ pcm = [data |-> <<>>, channels |-> 1, sample_rate |-> SAMPLE_RATE]
    /\ calls = 0
    /\ \E context_ok \in BOOLEAN, hrtf_ok \in BOOLEAN :
          /\ native = CreateContext(context_ok, hrtf_ok).native
          /\ panic = CreateContext(context_ok, hrtf_ok).panic
    /\ \E present \in SUBSET LibNames :
          library = IF panic = ""
                    THEN [name \in present |-> SoundNew(Clip(name), 1, SAMPLE_RATE)]
                    ELSE EmptyMap
    /\ staged = None
    /\ emitters = EmptyMap
    /\ listeners = EmptyMap
    /\ sink = <<>>
    /\ last = [op |-> "init"]
    /\ play = NotCounted

NextLife ==
    \/ \E p \in Playbacks : EmitterNew(p)
    \/ \E n \in Names : EmitterWithSound(n)
    \/ RegisterEmitter
    \/ WithEmitter
    \/ RegisterListener
    \/ WithListener
    \/ Teardown
    \/ DropField

SpecLife == InitLife /\ [][NextLife]_vars

----------------------------------------------------------------------------
(* Properties of the AudioSystem (Spec) *)

\* a step is a call of AudioSystem::update: no other operation leaves
\* "update" as the last operation
UpdateStep == last'.op = "update"

\* C2: update() called with FRAMES_TO_BUFFER or more mixers pending appends
\* nothing to the sink, call after call
C2_Backpressure ==
    [][(UpdateStep /\ Len(sink) >= FRAMES_TO_BUFFER) => sink' = sink]_vars

\* update() has just been called on a full sink
C2_Witness ==
    /\ last.op = "update" /\ ~last.ran
    /\ Len(sink) = FRAMES_TO_BUFFER

\* C3: the sink never holds more than FRAMES_TO_BUFFER pending mixers
C3_SinkBounded == Len(sink) <= FRAMES_TO_BUFFER

\* the pass that filled the sink to the mark, with frames in its mixer
C3_Witness ==
    /\ last.op = "update" /\ last.ran
    /\ Len(sink) = FRAMES_TO_BUFFER
    /\ sink[Len(sink)] # <<>>

\* C4: in one pass every frame pulled from an Emitter is spatialized against
\* each registered Listener, and the mixer of the pass holds each of these
\* spatialized frames
C4_EveryListener ==
    (last.op = "update" /\ last.ran) =>
        \A i \in DOMAIN last.calls : \A lid \in DOMAIN listeners :
            \E j \in DOMAIN last.calls :
                /\ last.calls[j].listener = lid
                /\ last.calls[j].emitter = last.calls[i].emitter
                /\ last.calls[j].index = last.calls[i].index
                /\ last.calls[j].frame = last.calls[i].frame
                /\ \E m \in DOMAIN sink[Len(sink)] :
                      sink[Len(sink)][m] = last.calls[j].out

\* C5: a pass of update() with at least one Listener moves the cursor of
\* every Sound of every registered Emitter by exactly one block (a Sound at
\* its end stays there)
C5_OneBlockPerTick ==
    [][(UpdateStep /\ Len(sink) < FRAMES_TO_BUFFER /\ DOMAIN listeners # {}) =>
          \A eid \in DOMAIN emitters :
              /\ Len(emitters'[eid].sounds) = Len(emitters[eid].sounds)
              /\ \A i \in DOMAIN emitters[eid].sounds :
                    emitters'[eid].sounds[i].frames =
                        IF emitters[eid].sounds[i].frames = <<>> THEN <<>>
                        ELSE Tail(emitters[eid].sounds[i].frames)]_vars

\* the indexes of the Sounds of e that have a frame left
Live(e) == {i \in DOMAIN e.sounds : e.sounds[i].frames # <<>>}

\* the j-th smallest element of the set of indexes S
Nth(S, j) == CHOOSE i \in S : Cardinality({k \in S : k <= i}) = j

\* C6: get_frames moves the cursor of every Sound that has a frame left by
\* one block, leaves the others alone, returns the frames passed over, one
\* per such Sound in assignment order, and returns None exactly when no
\* Sound has a frame left
C6_GetFrames ==
    [][\A uid \in DOMAIN emitters : GetFrames(uid) =>
          LET before == emitters[uid]
              after == emitters'[uid]
              live == Live(before)
              ret == last'.ret
          IN  /\ Len(after.sounds) = Len(before.sounds)
              /\ \A i \in DOMAIN before.sounds :
                    IF i \in live
                    THEN after.sounds[i].frames = Tail(before.sounds[i].frames)
                    ELSE after.sounds[i] = before.sounds[i]
              /\ (ret = None) <=> (live = {})
              /\ live # {} =>
                    /\ Len(ret.some) = Cardinality(live)
                    /\ \A j \in 1..Len(ret.some) :
                          ret.some[j] = Head(before.sounds[Nth(live, j)].frames)]_vars

\* get_frames has returned one frame from an Emitter of two Sounds, the
\* first of which was at its end
C6_Witness ==
    /\ last.op = "get_frames"
    /\ IsSome(last.ret) /\ Len(last.ret.some) = 1
    /\ Len(emitters[last.uid].sounds) = 2
    /\ emitters[last.uid].sounds[1].frames = <<>>

\* C8: get_frames on one Emitter changes no other Emitter, registered or
\* being built, also when they hold the same library Sound
C8_IndependentCursors ==
    [][\A uid \in DOMAIN emitters : GetFrames(uid) =>
          /\ \A other \in DOMAIN emitters \ {uid} : emitters'[other] = emitters[other]
          /\ staged' = staged
          /\ library' = library]_vars

\* two Emitters were given Sound "a"; get_frames on Emitter 1 has moved its
\* cursor while Emitter 0 is still at the first frame
C8_Witness ==
    /\ last.op = "get_frames" /\ last.uid = 1
    /\ "a" \in DOMAIN library
    /\ {0, 1} \subseteq DOMAIN emitters
    /\ Len(emitters[0].sounds) >= 1 /\ Len(emitters[1].sounds) >= 1
    /\ emitters[0].sounds[1].frames = library["a"].frames
    /\ emitters[1].sounds[1].frames = Tail(library["a"].frames)

\* C9: with_sound with a name that is no key of the library returns the
\* Emitter as it was and does not panic; with a name that is a key it appends
\* exactly one Sound, the library's, to the list
C9_WithSound ==
    [][\A n \in Names : EmitterWithSound(n) =>
          IF n \in DOMAIN library
          THEN staged'.some.sounds = Append(staged.some.sounds, library[n])
          ELSE staged' = staged /\ panic' = ""]_vars

\* with_sound("nonexistent") was called on an Emitter that holds a Sound
C9_Witness ==
    /\ last.op = "with_sound" /\ last.name \notin DOMAIN library
    /\ IsSome(staged) /\ Len(staged.some.sounds) = 1
    /\ panic = ""

\* an apply_convolutions call in which a native stage returned failure
Failed(call) == \E n \in DOMAIN call.statuses : call.statuses[n] = "failure"

\* the frames returned by the calls of a pass, in call order
OutsOf(callseq) == [i \in DOMAIN callseq |-> callseq[i].out]

\* C11: after a pass of update() the mixer of the tick holds the frames of the
\* calls in which every native stage succeeded, and no frame of a call in
\* which a stage (encode, direct, binaural) reported failure
C11_FailedFrameDropped ==
    (last.op = "update" /\ last.ran) =>
        sink[Len(sink)] = OutsOf(SelectSeq(last.calls, LAMBDA c : ~Failed(c)))

\* the number of frames n successive get_frames calls pull from the Sounds of
\* e from the i-th on
RECURSIVE PulledBy(_, _, _)
PulledBy(e, n, i) ==
    IF i > Len(e.sounds) THEN 0
    ELSE Min(n, Len(e.sounds[i].frames)) + PulledBy(e, n, i + 1)

\* C12: a pass of update() in which a native stage reported failure is not
\* cut short: every Emitter is still pulled once for every Listener, every
\* frame pulled is spatialized, and the mixer of the tick is appended to the
\* sink
C12_FailureIsolated ==
    [][(UpdateStep /\ last'.ran /\ \E c \in DOMAIN last'.calls : Failed(last'.calls[c])) =>
          LET L == Cardinality(DOMAIN listeners)
          IN  /\ panic' = ""
              /\ \A eid \in DOMAIN emitters :
                    /\ Len(emitters'[eid].sounds) = Len(emitters[eid].sounds)
                    /\ \A i \in DOMAIN emitters[eid].sounds :
                          LET frames == emitters[eid].sounds[i].frames
                          IN  emitters'[eid].sounds[i].frames =
                                  SubSeq(frames, Min(L, Len(frames)) + 1, Len(frames))
                    /\ Cardinality({c \in DOMAIN last'.calls : last'.calls[c].emitter = eid})
                          = PulledBy(emitters[eid], L, 1)
              /\ sink' = Append(sink, OutsOf(last'.calls))]_vars

\* a pass whose first call failed and which went on to spatialize a frame
\* for another Listener
C12_Witness ==
    /\ last.op = "update" /\ last.ran
    /\ Len(last.calls) >= 2
    /\ Failed(last.calls[1])
    /\ last.calls[2].listener # last.calls[1].listener
    /\ ~Failed(last.calls[2])
    /\ Len(sink[Len(sink)]) = Len(last.calls)

\* C13: a pass of update() started with fewer than FRAMES_TO_BUFFER pending
\* mixers appends exactly one mixer to the sink, holding every frame
\* spatialized in the pass in the order of the calls; this is so also when no
\* Emitter gave a frame and when no Listener is registered (an empty mixer)
C13_OneMixerPerPass ==
    [][(UpdateStep /\ Len(sink) < FRAMES_TO_BUFFER) =>
          /\ last'.ran
          /\ Len(sink') = Len(sink) + 1
          /\ SubSeq(sink', 1, Len(sink)) = sink
          /\ sink'[Len(sink')] = OutsOf(last'.calls)
          /\ (DOMAIN listeners = {} => sink'[Len(sink')] = <<>>)]_vars

\* a pass with an Emitter that has frames left and no Listener has appended
\* an empty mixer
C13_Witness ==
    /\ last.op = "update" /\ last.ran
    /\ DOMAIN listeners = {}
    /\ \E eid \in DOMAIN emitters : Live(emitters[eid]) # {}
    /\ sink # <<>> /\ sink[Len(sink)] = <<>>

\* C14: update() called with FRAMES_TO_BUFFER or more pending mixers changes
\* nothing: no cursor of any Emitter moves, no Listener's buffers or queue
\* change, no frame is spatialized and the sink is as it was
C14_SkippedPassIsNoOp ==
    [][(UpdateStep /\ Len(sink) >= FRAMES_TO_BUFFER) =>
          /\ ~last'.ran /\ last'.calls = <<>>
          /\ UNCHANGED <<emitters, listeners, sink, staged, library, panic>>]_vars

\* update() has returned without a pass although a Listener is registered
\* and an Emitter has a frame left
C14_Witness ==
    /\ last.op = "update" /\ ~last.ran
    /\ Len(sink) >= FRAMES_TO_BUFFER
    /\ DOMAIN listeners # {}
    /\ \E eid \in DOMAIN emitters : Live(emitters[eid]) # {}

\* C15: apply_convolutions on a mono frame of size N returns a frame with
\* channels = 2 and the duration, sample_rate and size of its input, whose
\* data are 2 * N samples of the stereo buffer, interleaved: left and right
\* of sample 0, then left and right of sample 1, and so on
C15_StereoFrame ==
    (last.op = "update" /\ last.ran) =>
        \A c \in DOMAIN last.calls :
            LET frame == last.calls[c].frame
                out == last.calls[c].out
            IN  frame.channels = 1 =>
                  /\ out.channels = 2
                  /\ out.duration = frame.duration
                  /\ out.sample_rate = frame.sample_rate
                  /\ out.size = frame.size
                  /\ Len(out.data) = 2 * frame.size
                  /\ \A i \in DOMAIN out.data :
                        /\ out.data[i].of = out.data[1].of
                        /\ out.data[i].channel = (i - 1) % 2
                        /\ out.data[i].sample = (i - 1) \div 2

\* a pass has spatialized a mono frame of FRAME_SIZE samples
C15_Witness ==
    /\ last.op = "update" /\ last.ran
    /\ \E c \in DOMAIN last.calls :
          /\ last.calls[c].frame.channels = 1
          /\ last.calls[c].frame.size = FRAME_SIZE
          /\ Len(last.calls[c].frame.data) = FRAME_SIZE
          /\ last.calls[c].out.channels = 2

\* the registry after is the registry before with one entry more, under a
\* key no entry had
GrownByOne(before, after) ==
    /\ Cardinality(DOMAIN after) = Cardinality(DOMAIN before) + 1
    /\ DOMAIN before \subseteq DOMAIN after
    /\ \A id \in DOMAIN before : after[id] = before[id]

\* C17: with_emitter and register_emitter (with_listener and
\* register_listener) store the new Emitter (Listener) under an id no
\* registered Emitter (Listener) has: every entry registered before is still
\* there unchanged, the registry has grown by exactly one entry, and
\* register_* returns the new entry's id
C17_FreshIds ==
    [][/\ last'.op \in {"register_emitter", "with_emitter"} =>
            /\ GrownByOne(emitters, emitters')
            /\ IsSome(staged) /\ \E id \in DOMAIN emitters' \ DOMAIN emitters :
                  /\ emitters'[id] = staged.some
                  /\ last'.op = "register_emitter" => last'.ret = id
       /\ last'.op \in {"register_listener", "with_listener"} =>
            /\ GrownByOne(listeners, listeners')
            /\ \E id \in DOMAIN listeners' \ DOMAIN listeners :
                  /\ listeners'[id] = ListenerNewValue
                  /\ last'.op = "register_listener" => last'.ret = id]_vars

\* a second Emitter, unlike the first, has been registered beside a Listener
C17_Witness ==
    /\ last.op = "register_emitter" /\ last.ret = 1
    /\ DOMAIN emitters = {0, 1}
    /\ emitters[0] # emitters[1]
    /\ DOMAIN listeners # {}

\* C18: an Emitter built with playback mode Once does not keep a Sound whose
\* cursor is at its end: once get_frames has found every Sound of the Emitter
\* at its end, the Emitter's list of Sounds is empty
C18_OnceDropsExhausted ==
    (/\ last.op = "get_frames"
     /\ last.ret = None
     /\ emitters[last.uid].sound_playback = "Once") =>
        emitters[last.uid].sounds = <<>>

\* C23: the mixer a pass of update() appends to the sink is complete and is
\* the pass's own: it holds, in call order, the frame of every
\* apply_convolutions call of the pass, every Emitter having been pulled once
\* for every Listener, and nothing else; the mixers appended by earlier
\* passes are as they were
C23_MixerCompleteWhenAppended ==
    [][(UpdateStep /\ last'.ran) =>
          LET L == Cardinality(DOMAIN listeners)
              mixer == sink'[Len(sink')]
          IN  /\ Len(sink') = Len(sink) + 1
              /\ \A m \in DOMAIN sink : sink'[m] = sink[m]
              /\ Len(mixer) = Len(last'.calls)
              /\ \A c \in DOMAIN last'.calls : mixer[c] = last'.calls[c].out
              /\ \A eid \in DOMAIN emitters :
                    Cardinality({c \in DOMAIN mixer : last'.calls[c].emitter = eid})
                        = PulledBy(emitters[eid], L, 1)]_vars

\* two passes in a row have each appended a mixer with frames
C23_Witness ==
    /\ last.op = "update" /\ last.ran
    /\ Len(sink) = 2
    /\ sink[1] # <<>>
    /\ sink[2] # <<>>
    /\ Len(sink[2]) = Len(last.calls)

\* what a buffer holds: the stage that wrote it last, and what that stage read
StageName(content) ==
    IF Len(content) = 0 THEN "none"
    ELSE IF content[1] = "failed" THEN content[2] ELSE content[1]
StageInput(content) == IF Len(content) = 0 THEN <<>> ELSE content[Len(content)]

\* C24: every apply_convolutions call runs encode, direct and binaural once
\* each and interleaves: all samples of the frame returned come from the
\* stereo buffer as the binaural stage wrote it, which read ambisonics buffer
\* 2 as the direct effect wrote it, which read ambisonics buffer 1 as the
\* encode stage wrote it, which read the samples of the input frame; the
\* Listener's buffers hold these contents after the last call
C24_StageOrder ==
    (last.op = "update" /\ last.ran) =>
        \A c \in DOMAIN last.calls :
            LET call == last.calls[c]
                stereo == call.out.data[1].of
                amb2 == StageInput(stereo)
                amb1 == StageInput(amb2)
                mono == StageInput(amb1)
            IN  /\ Len(call.statuses) = Len(Stages)
                /\ \A i \in DOMAIN call.out.data : call.out.data[i].of = stereo
                /\ StageName(stereo) = "ambisonics_binaural"
                /\ StageName(amb2) = "direct"
                /\ StageName(amb1) = "ambisonics_encode"
                /\ mono = <<"pcm", call.frame.data>>
                /\ c = Len(last.calls) =>
                      /\ listeners[call.listener].stereo_buffer.content = stereo
                      /\ listeners[call.listener].ambisonics2_buffer.content = amb2
                      /\ listeners[call.listener].ambisonics1_buffer.content = amb1

\* a Listener has spatialized a frame with buffers that an earlier call had
\* written
C24_Witness ==
    /\ last.op = "update" /\ last.ran
    /\ Len(last.calls) >= 2
    /\ last.calls[1].listener = last.calls[2].listener
    /\ last.calls[1].frame # last.calls[2].frame

\* the Sounds attached to registered Emitters
Playing == UNION {{emitters[eid].sounds[i] : i \in DOMAIN emitters[eid].sounds} :
                  eid \in DOMAIN emitters}

\* C25: no step changes a Sound of the SoundLibrary, and with_sound of a name
\* the library holds attaches the library's Sound as it was loaded: cursor at
\* the first frame, all ceil(n / FRAME_SIZE) frames of the n-sample clip to
\* come, whatever registered Emitters have played of the same Sound
C25_LibraryImmutable ==
    [][/\ library' = library
       /\ (last'.op = "with_sound" /\ last'.name \in DOMAIN library) =>
            LET attached == staged'.some.sounds[Len(staged'.some.sounds)]
                loaded == SoundNew(Clip(last'.name), 1, SAMPLE_RATE)
            IN  /\ Len(staged'.some.sounds) = Len(staged.some.sounds) + 1
                /\ attached = loaded
                /\ attached = library[last'.name]
                /\ Len(attached.frames) = CeilDiv(Len(Clip(last'.name)), FRAME_SIZE)]_vars

\* with_sound has attached a Sound of which a registered Emitter has already
\* played a part
C25_Witness ==
    /\ last.op = "with_sound" /\ last.name \in DOMAIN library
    /\ \E s \in Playing :
          /\ Len(s.frames) < Len(library[last.name].frames)
          /\ s = [library[last.name] EXCEPT !.frames = s.frames]
          /\ s.frames = SubSeq(library[last.name].frames,
                               Len(library[last.name].frames) - Len(s.frames) + 1,
                               Len(library[last.name].frames))
    /\ staged.some.sounds[Len(staged.some.sounds)] = library[last.name]

----------------------------------------------------------------------------
(* Properties of Sound::new and of one clip played by one Emitter (SpecSound) *)

\* Sound::new(pcm) has returned or panicked
SoundNewCalled == panic # "" \/ "a" \in DOMAIN library

RECURSIVE Flatten(_)
Flatten(frames) ==
    IF frames = <<>> THEN <<>> ELSE Head(frames).data \o Flatten(Tail(frames))

\* the frames of `sound` are the blocks of `data`: ceil(len / FRAME_SIZE)
\* frames of FRAME_SIZE samples each, the samples of `data` in order followed
\* by fewer than FRAME_SIZE zeros, which therefore all lie in the last frame
FramesOf(sound, data) ==
    LET n == Len(sound.frames)
        flat == Flatten(sound.frames)
    IN  /\ n = CeilDiv(Len(data), FRAME_SIZE)
        /\ \A k \in 1..n : /\ Len(sound.frames[k].data) = FRAME_SIZE
                            /\ sound.frames[k].size = FRAME_SIZE
        /\ Len(flat) - Len(data) < FRAME_SIZE
        /\ SubSeq(flat, 1, Len(data)) = data
        /\ \A i \in (Len(data) + 1)..Len(flat) : flat[i] = 0

\* C1 as stated: for every non-empty sample vector Sound::new produces
\* ceil(len / FRAME_SIZE) frames of FRAME_SIZE samples, only the last one
\* zero-padded, that concatenate to the input (whatever the channel count
\* and the sample rate)
C1_AsStated ==
    (Len(pcm.data) > 0 /\ SoundNewCalled)
        => ("a" \in DOMAIN library /\ FramesOf(library["a"], pcm.data))

\* C1 amended: for every non-empty sample vector, a channel count >= 1 and a
\* sample rate >= 1, Sound::new produces ceil(len / FRAME_SIZE) frames of
\* FRAME_SIZE samples, only the last one zero-padded, that concatenate to the
\* input once the trailing padding is removed
C1_Frames ==
    (Len(pcm.data) > 0 /\ pcm.channels > 0 /\ pcm.sample_rate > 0 /\ SoundNewCalled)
        => ("a" \in DOMAIN library /\ FramesOf(library["a"], pcm.data))

C1_Witness ==
    /\ "a" \in DOMAIN library
    /\ Len(library["a"].frames) >= 2
    /\ Len(pcm.data) % FRAME_SIZE # 0
    /\ pcm.data[Len(pcm.data)] # 0

\* C7: an Emitter whose only sound was built from n samples returns exactly
\* one frame on each of its first ceil(n / FRAME_SIZE) get_frames calls and
\* None on every later call
C7_EndOfStream ==
    (IsSome(staged) /\ last.op = "get_frames" /\ Len(staged.some.sounds) = 1)
        => /\ IsSome(last.ret) <=> calls <= CeilDiv(Len(pcm.data), FRAME_SIZE)
           /\ IsSome(last.ret) => Len(last.ret.some) = 1

\* a clip of two full blocks has given its two frames and then None twice
C7_Witness ==
    /\ IsSome(staged) /\ Len(staged.some.sounds) = 1
    /\ Len(pcm.data) = 2 * FRAME_SIZE
    /\ calls = 4
    /\ last.op = "get_frames" /\ last.ret = None

\* C10: Sound::new on an empty sample vector panics with the assertion's
\* message and no Sound is built, for every channel count and sample rate
C10_EmptyAsserts ==
    (Len(pcm.data) = 0 /\ SoundNewCalled)
        => (panic = "Empty Data Vector" /\ library = EmptyMap)

\* the empty vector with a zero channel count: the assertion fails before
\* the division is reached
C10_Witness ==
    /\ Len(pcm.data) = 0 /\ pcm.channels = 0
    /\ panic = "Empty Data Vector"

\* a Duration in whole milliseconds and in nanoseconds
AsMillis(d) == d.secs * 1000 + d.nanos \div 1000000
AsNanos(d) == d.secs * 1000000000 + d.nanos

\* the sum of the durations of the frames from the k-th on, in nanoseconds
RECURSIVE SumFrameNanos(_, _)
SumFrameNanos(frames, k) ==
    IF k > Len(frames) THEN 0
    ELSE AsNanos(frames[k].duration) + SumFrameNanos(frames, k + 1)

\* C19: the duration Sound::new stores for the whole Sound is
\* len / (sample_rate * channels) seconds to within one millisecond, and it
\* does not exceed the sum of the durations of the Sound's frames by more
\* than one millisecond
C19_DurationConsistent ==
    "a" \in DOMAIN library =>
        LET sound == library["a"]
            len == Len(pcm.data)
            per_second == pcm.sample_rate * pcm.channels
            ms == AsMillis(sound.duration)
        IN  /\ (ms - 1) * per_second <= 1000 * len
            /\ 1000 * len <= (ms + 1) * per_second
            /\ ms * 1000000 <= SumFrameNanos(sound.frames, 1) + 1000000

\* C21: every frame of the Sound that Sound::new returns has the channel
\* count and the sample rate given to Sound::new, which are also the Sound's
\* own, and all its frames have one and the same duration
C21_FramesShareMetadata ==
    "a" \in DOMAIN library =>
        LET sound == library["a"]
        IN  /\ sound.channels = pcm.channels
            /\ sound.sample_rate = pcm.sample_rate
            /\ \A k \in DOMAIN sound.frames :
                  /\ sound.frames[k].channels = pcm.channels
                  /\ sound.frames[k].sample_rate = pcm.sample_rate
                  /\ sound.frames[k].duration = sound.frames[1].duration

\* Sound::new has built a two-channel Sound of three frames, the last padded
C21_Witness ==
    /\ "a" \in DOMAIN library
    /\ Len(library["a"].frames) = 3
    /\ Len(pcm.data) % FRAME_SIZE # 0
    /\ pcm.channels = 2
    /\ library["a"].frames[3].channels = 2

\* the samples of the frames in order, frame after frame
RECURSIVE SamplesOf(_)
SamplesOf(frames) ==
    IF Len(frames) = 0 THEN <<>>
    ELSE Head(frames).data \o SamplesOf(Tail(frames))

\* C28: iterating a Sound sample by sample yields every sample of every
\* remaining frame in order, FRAME_SIZE * k samples for k remaining frames,
\* before it returns None
C28_IterationYieldsEverySample ==
    last.op = "iterate" =>
        /\ last.yielded = SamplesOf(last.sound.frames)
        /\ Len(last.yielded) = FRAME_SIZE * Len(last.sound.frames)

----------------------------------------------------------------------------
(* Properties of the construction and the drop of the AudioSystem (SpecLife) *)

\* C22: the context and the HRTF of the AudioProcessor are never released
\* while the processor is in use, are each released when it is dropped, and
\* are never released a second time
C22_ReleasedOnce ==
    /\ native.context_releases <= 1
    /\ native.hrtf_releases <= 1
    /\ native.dropping <= 1 =>
          /\ native.context_releases = 0 /\ native.context # "released"
          /\ native.hrtf_releases = 0 /\ native.hrtf # "released"
    /\ native.dropping > 1 =>
          /\ native.context_releases = 1 /\ native.context = "released"
          /\ native.hrtf_releases = 1 /\ native.hrtf = "released"

\* the AudioProcessor of a system that had registered an Emitter has just
\* been dropped
C22_Witness ==
    /\ last.op = "drop_field" /\ last.field = "audio_processor"
    /\ native.context = "released" /\ native.hrtf = "released"
    /\ DOMAIN emitters # {}

\* C29: once the context of the AudioProcessor has been released, no
\* registered Emitter (with its effect stages) and no registered Listener
\* (with its buffers) is left: they were all dropped before
C29_ContextReleasedLast ==
    native.context = "released" =>
        DOMAIN emitters = {} /\ DOMAIN listeners = {}

----------------------------------------------------------------------------
(* Properties of an AudioSystem that only ticks (SpecPlay, SpecPlayFair) *)

\* the indexes of the Sounds of e that have k frames or more
HasFrame(e, k) == {i \in DOMAIN e.sounds : Len(e.sounds[i].frames) >= k}

\* C26: with exactly one Listener and every Sound attached before the first
\* pass, the k-th pass of update() spatializes, for every Emitter, the k-th
\* frame of each of its Sounds that has k frames or more, in the order of the
\* Sounds, and nothing else, and the mixer it appends holds exactly these
\* frames spatialized
C26_KthPassKthFrame ==
    [][(UpdateStep /\ last'.ran /\ Cardinality(DOMAIN listeners) = 1) =>
          LET k == play'.passes
          IN  /\ k = play.passes + 1
              /\ \A eid \in DOMAIN emitters :
                    LET e == play.assigned[eid]
                        mine == SelectSeq(last'.calls, LAMBDA c : c.emitter = eid)
                    IN  /\ Len(mine) = Cardinality(HasFrame(e, k))
                        /\ \A j \in DOMAIN mine :
                              mine[j].frame = e.sounds[Nth(HasFrame(e, k), j)].frames[k]
              /\ sink'[Len(sink')] = OutsOf(last'.calls)]_vars

\* the second pass has mixed the second frame of one Sound of an Emitter
\* whose other Sound had only one frame
C26_Witness ==
    /\ last.op = "update" /\ last.ran
    /\ play.passes = 2
    /\ Cardinality(DOMAIN listeners) = 1
    /\ Len(last.calls) = 1
    /\ Len(play.assigned[last.calls[1].emitter].sounds) = 2
    /\ Len(play.assigned[last.calls[1].emitter].sounds[1].frames) = 1
    /\ Len(play.assigned[last.calls[1].emitter].sounds[2].frames) >= 2
    /\ last.calls[1].frame =
          play.assigned[last.calls[1].emitter].sounds[2].frames[2]

\* C27: with at least one Listener, update() called again and again and the
\* device playing what is queued, there comes a point from which every Sound
\* of every registered Emitter is at its end, so that get_frames on any
\* Emitter returns None from then on
C27_EventuallyExhausted ==
    []<><<UpdateStep>>_vars =>
        <>[](/\ DOMAIN listeners # {}
             /\ \A eid \in DOMAIN emitters : GetFramesReturn(emitters[eid]) = None)

\* an Emitter that was registered with a Sound of two frames has played it to
\* its end
C27_Witness ==
    /\ DOMAIN listeners # {}
    /\ \E eid \in DOMAIN emitters :
          /\ \E i \in DOMAIN play.assigned[eid].sounds :
                Len(play.assigned[eid].sounds[i].frames) = 2
          /\ GetFramesReturn(emitters[eid]) = None
    /\ last.op = "update" /\ last.ran /\ last.calls # <<>>

====
